---- MODULE Spec2Model ----
(***************************************************************************)
(* Model of app_streamlit.py: the chat session of the Presto Knowledge AI  *)
(* Copilot.  One session: its history and last_request_time               *)
(* (st.session_state), the query flow of one script run (throttle check,   *)
(* temp_history, ask_question's retry loop, answer substitution, history   *)
(* update and truncation).                                                 *)
(*                                                                         *)
(* Time is counted in ticks of 0.1 second: 1.5 s is 15 ticks, the 2 s      *)
(* retry delay is 20 ticks.                                                *)
(***************************************************************************)
EXTENDS Integers, Sequences, FiniteSets, TLC

\* ------------------------------------------------------------- constants

\* MAX_TURNS = 6 (user+assistant pairs kept)
MAX_TURNS == 6

\* a loop that runs one attempt too many: range(1, max_retries + 2)
max_retries_plus == 5 + 1

\* max_retries = 5 in ask_question
max_retries == 5

\* delay = 2 seconds in ask_question, in ticks
delay == 20

\* the literal 1.5 (seconds) of the request interval check, in ticks
MIN_INTERVAL == 15

\* the fixed text substituted for a falsy answer (line 268)
FALLBACK == "fallback"

\* ---------------------------------------------------------------- bounds

\* value of time.time() when the session starts (any value >= MIN_INTERVAL
\* behaves alike: the real value is seconds since 1970)
Epoch == 15

\* no submission is made after this time
MaxTime == 106

\* the texts a user submits (st.chat_input never yields an empty text)
Questions == {"q1", "q2"}

\* time elapsed between the previous event of the session and a submission
Deltas == {10, 15}

\* the same, around the 1.5 s threshold, for the runs that look at the throttle
FineDeltas == {10, 14, 15, 16}

\* no submission is made after this time in those runs
FineMaxTime == 60

\* no submission is made after this time in the runs that look at the
\* stores and the sidebar, and in the runs of two sessions
StoreMaxTime == 40
MultiMaxTime == 30

\* non-empty texts of a successful generation
Texts == {"a1"}

\* response.text of a successful generation: a text, the empty text, or None
None == "None"
ResponseTexts == Texts \cup {"", None}

\* str(e) of a ServerError: one that contains "overloaded", one that does not
ServerMessages == {"overloaded", "internal"}

\* store_options.values(): the display names the sidebar offers (index=0 first)
StoreOptions == {"presto_products", "presto_applications", "presto_programmings"}
DefaultStoreOption == "presto_products"

\* the model names the sidebar offers (index=0 first)
ModelOptions == {"gemini-2.5-flash", "gemini-2.5-pro", "gemini-3-pro-preview"}
DefaultModel == "gemini-2.5-flash"

\* a File Search Store as the remote service lists it; its name is the
\* identifier the service assigned (a number here)
Store(id, dn) == [name |-> id, display_name |-> dn]
NoStore == Store(0, None)

\* the stores made beforehand, one per display name of the sidebar
PrestoStores ==
    <<Store(1, "presto_products"), Store(2, "presto_applications"),
      Store(3, "presto_programmings")>>

\* get_store has made no listing call in this run
NoListing == <<Store(-1, None)>>

\* the sessions (browser tabs) of the server
Sessions == {1, 2}

VARIABLES
    history,            \* st.session_state.history: sequence of turns
    last_request_time,  \* st.session_state.last_request_time
    clock,              \* the wall clock, time.time()
    pc,                 \* position of the script run
    now,                \* local now of the run (line 219)
    user_msg,           \* local user_msg (line 232)
    temp_history,       \* local temp_history (line 236): contents of the request
    attempt,            \* loop variable of ask_question
    delays,             \* number of time.sleep(delay) calls of this ask_question call
    overloads,          \* number of overloaded ServerErrors raised in this call
    response,           \* what the transport answered to the last attempt
    st_error,           \* the st.error message ask_question displayed
    answer,             \* local answer (lines 263-269)
    prev_last,          \* last_request_time as the run's throttle check read it
    prev_submit,        \* time of the immediately preceding submission, -1 if none
    last_accepted,      \* time of the last accepted submission before this one, -1 if none
    contents,           \* contents of the last generate_content call of the run
    req_store,          \* file_search_store_names of that call (the store's name)
    req_model,          \* model of that call
    hist_store,         \* name of the store the newest pair of history was asked of
    store,              \* local store of the run (line 135), NoStore before it
    listed,             \* what file_search_stores.list() gave get_store in this run
    created,            \* whether get_store called file_search_stores.create in this run
    uncaught,           \* the uncaught exception that ended the session's last run
    selected,           \* store_display_name: the sidebar's store selection
    model_name,         \* the sidebar's model selection
    stores,             \* the remote service: its File Search Stores, in listing order
    store_cache,        \* st.cache_resource of get_store: display name -> store
    ok_list_calls,      \* per display name: list() calls made by get_store calls that returned
    ok_create_calls,    \* per display name: create() calls made by get_store calls that returned
    cur,                \* the session whose script thread is running
    other               \* the state of the session that is not running

vars == <<history, last_request_time, clock, pc, now, user_msg, temp_history,
          attempt, delays, overloads, response, st_error, answer, prev_last,
          prev_submit, last_accepted, contents, req_store, req_model,
          hist_store, store, listed, created, uncaught, selected, model_name,
          stores, store_cache, ok_list_calls, ok_create_calls, cur, other>>

\* what the query flow never touches: the sidebar, the remote stores, the
\* cache of get_store, the other session
AppFrame == <<uncaught, selected, model_name, stores, store_cache, ok_list_calls,
              ok_create_calls, cur, other>>

\* the locals that get_store's call at line 135 sets
RunStore == <<store, listed, created>>

\* the arguments of the last generate_content call
Request == <<contents, req_store, req_model>>

\* types.Content(role=..., parts=[types.Part(text=...)])
Content(role, text) == [role |-> role, text |-> text]

NoMsg == Content("none", "")

\* what generate_content did: returned a response, or raised an error
Returned(t) == [kind |-> "ok", text |-> t]
Raised(class, msg) == [kind |-> class, text |-> msg]
NoResponse == [kind |-> "none", text |-> ""]

\* ------------------------------------------------------------ operators

\* history[-n:] of Python for n > 0
LastN(h, n) == IF Len(h) <= n THEN h ELSE SubSeq(h, Len(h) - n + 1, Len(h))

\* the slice is computed but the history is left as it was
TruncateNever(h) == h

\* the slice keeps the oldest turns, history[:MAX_TURNS * 2]
TruncateKeepFirst(h) ==
    IF Len(h) > MAX_TURNS * 2 THEN SubSeq(h, 1, MAX_TURNS * 2) ELSE h

\* lines 280-281
Truncate(h) ==
    IF Len(h) > MAX_TURNS * 2 THEN LastN(h, MAX_TURNS * 2) ELSE h

\* the check written with <= instead of <
TooSoonLe(t, last) == t - last <= MIN_INTERVAL

\* line 222: the request interval check
TooSoon(t, last) == t - last < MIN_INTERVAL

\* line 83: response.text or ""
TextOrEmpty(t) == IF t = None \/ t = "" THEN "" ELSE t

\* line 87: "overloaded" in str(e)
IsOverloaded(msg) == msg = "overloaded"

\* the retry condition written with <= instead of <
ShouldRetryLe(msg, n) == IsOverloaded(msg) /\ n <= max_retries

\* line 87: the retry condition of the ServerError handler
ShouldRetry(msg, n) == IsOverloaded(msg) /\ n < max_retries

\* no substitution: a falsy answer is recorded as it is
DisplayedAsIs(a) == a

\* lines 265-269: a falsy answer is replaced by the fallback text
Displayed(a) == IF a = "" THEN FALLBACK ELSE a

\* a failed answer is not recorded: only the user turn is appended
UpdatedDropFailed(h, u, a) ==
    IF a = FALLBACK THEN Truncate(h \o <<u>>)
    ELSE Truncate(h \o <<u, Content("model", a)>>)

\* lines 271-281: history update and truncation
Updated(h, u, a) == Truncate(h \o <<u, Content("model", a)>>)

\* --------------------------------------------------------------- actions

\* a session that has not run yet: lines 108-113 and the widgets' defaults
FreshSession ==
    [history |-> <<>>, last_request_time |-> 0, pc |-> "idle", now |-> 0,
     user_msg |-> NoMsg, temp_history |-> <<>>, attempt |-> 0, delays |-> 0,
     overloads |-> 0, response |-> NoResponse, st_error |-> "none",
     answer |-> "", prev_last |-> 0, prev_submit |-> -1, last_accepted |-> -1,
     contents |-> <<>>, req_store |-> 0, req_model |-> "none", hist_store |-> 0,
     store |-> NoStore, listed |-> NoListing, created |-> FALSE,
     uncaught |-> "none", selected |-> DefaultStoreOption,
     model_name |-> DefaultModel]

InitWith(listing) ==
    /\ history = <<>>
    /\ last_request_time = 0
    /\ clock = Epoch
    /\ pc = "idle"
    /\ now = 0
    /\ user_msg = NoMsg
    /\ temp_history = <<>>
    /\ attempt = 0
    /\ delays = 0
    /\ overloads = 0
    /\ response = NoResponse
    /\ st_error = "none"
    /\ answer = ""
    /\ prev_last = 0
    /\ prev_submit = -1
    /\ last_accepted = -1
    /\ contents = <<>>
    /\ req_store = 0
    /\ req_model = "none"
    /\ hist_store = 0
    /\ store = NoStore
    /\ listed = NoListing
    /\ created = FALSE
    /\ uncaught = "none"
    /\ selected = DefaultStoreOption
    /\ model_name = DefaultModel
    /\ stores = listing
    /\ store_cache = [dn \in StoreOptions |-> NoStore]
    /\ ok_list_calls = [dn \in StoreOptions |-> 0]
    /\ ok_create_calls = [dn \in StoreOptions |-> 0]
    /\ cur = 1
    /\ other = FreshSession

\* the session starts with the stores made beforehand on the remote service
Init == InitWith(PrestoStores)

\* remote services to start with: no store at all, the stores made
\* beforehand, and a listing with a store without display name and two
\* stores of the same display name
InitListings ==
    { <<>>,
      PrestoStores,
      <<Store(1, None), Store(2, "presto_products"), Store(3, "presto_products")>> }

AppInit == \E listing \in InitListings : InitWith(listing)

RunLocals == <<user_msg, temp_history, attempt, delays, overloads, response,
               st_error, answer>>

\* The time a submission is made at: the first one at the session's start,
\* a later one d ticks after the previous event of the session.
SubmitTime(d) == IF prev_submit = -1 THEN clock ELSE clock + d

\* a rejection that does not record the time of the rejected submission
SubmitRejectedNoRecord(D, maxT) ==
    /\ pc = "idle"
    /\ store # NoStore
    /\ \E d \in D :
         LET t == SubmitTime(d) IN
         /\ t <= maxT
         /\ TooSoon(t, last_request_time)
         /\ clock' = t
         /\ now' = t
         /\ prev_last' = last_request_time
         /\ pc' = "rejected"
    /\ UNCHANGED <<history, last_request_time, RunLocals, prev_submit, last_accepted>>
    /\ UNCHANGED <<AppFrame, RunStore, Request, hist_store>>

\* the user turn is appended before the request interval check
SubmitRejectedAppends(D, maxT) ==
    /\ pc = "idle"
    /\ store # NoStore
    /\ \E d \in D, q \in Questions :
         LET t == SubmitTime(d) IN
         /\ t <= maxT
         /\ TooSoon(t, last_request_time)
         /\ clock' = t
         /\ now' = t
         /\ prev_last' = last_request_time
         /\ last_request_time' = t
         /\ history' = history \o <<Content("user", q)>>
         /\ pc' = "rejected"
    /\ UNCHANGED <<RunLocals, prev_submit, last_accepted>>
    /\ UNCHANGED <<AppFrame, RunStore, Request, hist_store>>

\* lines 218-227: a submission that the request interval check rejects, made
\* d ticks (d in D) after the previous event and not later than maxT
SubmitRejectedIn(D, maxT) ==
    /\ pc = "idle"
    /\ store # NoStore
    /\ \E d \in D :
         LET t == SubmitTime(d) IN
         /\ t <= maxT
         /\ TooSoon(t, last_request_time)
         /\ clock' = t
         /\ now' = t
         /\ prev_last' = last_request_time
         /\ last_request_time' = t
         /\ pc' = "rejected"
    /\ UNCHANGED <<history, RunLocals, prev_submit, last_accepted>>
    /\ UNCHANGED <<AppFrame, RunStore, Request, hist_store>>

\* only the new user turn is sent: temp_history = [user_msg]
SubmitAcceptedLatestOnly(D, maxT) ==
    /\ pc = "idle"
    /\ store # NoStore
    /\ \E d \in D, q \in Questions :
         LET t == SubmitTime(d) IN
         /\ t <= maxT
         /\ ~TooSoon(t, last_request_time)
         /\ clock' = t
         /\ now' = t
         /\ prev_last' = last_request_time
         /\ last_request_time' = t
         /\ user_msg' = Content("user", q)
         /\ temp_history' = <<Content("user", q)>>
         /\ attempt' = 1
         /\ pc' = "attempting"
    /\ UNCHANGED <<history, delays, overloads, response, st_error, answer,
                   prev_submit, last_accepted>>
    /\ UNCHANGED <<AppFrame, RunStore, Request, hist_store>>

\* no copy: temp_history is the session's list itself and the user turn is
\* appended to it in place
SubmitAcceptedAliased(D, maxT) ==
    /\ pc = "idle"
    /\ store # NoStore
    /\ \E d \in D, q \in Questions :
         LET t == SubmitTime(d) IN
         /\ t <= maxT
         /\ ~TooSoon(t, last_request_time)
         /\ clock' = t
         /\ now' = t
         /\ prev_last' = last_request_time
         /\ last_request_time' = t
         /\ user_msg' = Content("user", q)
         /\ temp_history' = history \o <<Content("user", q)>>
         /\ history' = history \o <<Content("user", q)>>
         /\ attempt' = 1
         /\ pc' = "attempting"
    /\ UNCHANGED <<delays, overloads, response, st_error, answer,
                   prev_submit, last_accepted>>
    /\ UNCHANGED <<AppFrame, RunStore, Request, hist_store>>

\* lines 218-222, 228-236 and the entry of ask_question (lines 263, 55-59)
SubmitAcceptedIn(D, maxT) ==
    /\ pc = "idle"
    /\ store # NoStore
    /\ \E d \in D, q \in Questions :
         LET t == SubmitTime(d) IN
         /\ t <= maxT
         /\ ~TooSoon(t, last_request_time)
         /\ clock' = t
         /\ now' = t
         /\ prev_last' = last_request_time
         /\ last_request_time' = t
         /\ user_msg' = Content("user", q)
         /\ temp_history' = history \o <<Content("user", q)>>
         /\ attempt' = 1
         /\ pc' = "attempting"
    /\ UNCHANGED <<history, delays, overloads, response, st_error, answer,
                   prev_submit, last_accepted>>
    /\ UNCHANGED <<AppFrame, RunStore, Request, hist_store>>

SubmitRejected == SubmitRejectedIn(Deltas, MaxTime)
SubmitAccepted == SubmitAcceptedIn(Deltas, MaxTime)

StoreSubmitRejected == SubmitRejectedIn(Deltas, StoreMaxTime)
StoreSubmitAccepted == SubmitAcceptedIn(Deltas, StoreMaxTime)

MultiSubmitRejected == SubmitRejectedIn(Deltas, MultiMaxTime)
MultiSubmitAccepted == SubmitAcceptedIn(Deltas, MultiMaxTime)

FineSubmitRejected == SubmitRejectedIn(FineDeltas, FineMaxTime)
FineSubmitAccepted == SubmitAcceptedIn(FineDeltas, FineMaxTime)

\* lines 61-83: generate_content returns; ask_question returns response.text or ""
GenSuccess ==
    /\ pc = "attempting"
    /\ \E t \in ResponseTexts :
         /\ response' = Returned(t)
         /\ answer' = TextOrEmpty(t)
    /\ pc' = "returned"
    /\ UNCHANGED <<history, last_request_time, clock, now, user_msg, temp_history,
                   attempt, delays, overloads, st_error, prev_last, prev_submit,
                   last_accepted>>
    /\ contents' = temp_history
    /\ req_store' = store.name
    /\ req_model' = model_name
    /\ UNCHANGED <<AppFrame, RunStore, hist_store>>

\* lines 85-91: an overloaded ServerError that is retried: time.sleep(delay) begins
GenOverloadRetry ==
    /\ pc = "attempting"
    /\ \E msg \in ServerMessages :
         /\ ShouldRetry(msg, attempt)
         /\ response' = Raised("ServerError", msg)
    /\ overloads' = overloads + 1
    /\ pc' = "waiting"
    /\ UNCHANGED <<history, last_request_time, clock, now, user_msg, temp_history,
                   attempt, delays, st_error, answer, prev_last, prev_submit,
                   last_accepted>>
    /\ contents' = temp_history
    /\ req_store' = store.name
    /\ req_model' = model_name
    /\ UNCHANGED <<AppFrame, RunStore, hist_store>>

\* lines 85-87, 94-96: a ServerError that is not retried
GenServerErrorFinal ==
    /\ pc = "attempting"
    /\ \E msg \in ServerMessages :
         /\ ~ShouldRetry(msg, attempt)
         /\ response' = Raised("ServerError", msg)
         /\ overloads' = IF IsOverloaded(msg) THEN overloads + 1 ELSE overloads
    /\ st_error' = "overloaded"
    /\ answer' = ""
    /\ pc' = "returned"
    /\ UNCHANGED <<history, last_request_time, clock, now, user_msg, temp_history,
                   attempt, delays, prev_last, prev_submit, last_accepted>>
    /\ contents' = temp_history
    /\ req_store' = store.name
    /\ req_model' = model_name
    /\ UNCHANGED <<AppFrame, RunStore, hist_store>>

\* lines 98-101: any other APIError
GenAPIError ==
    /\ pc = "attempting"
    /\ response' = Raised("APIError", "invalid")
    /\ st_error' = "api_error"
    /\ answer' = ""
    /\ pc' = "returned"
    /\ UNCHANGED <<history, last_request_time, clock, now, user_msg, temp_history,
                   attempt, delays, overloads, prev_last, prev_submit, last_accepted>>
    /\ contents' = temp_history
    /\ req_store' = store.name
    /\ req_model' = model_name
    /\ UNCHANGED <<AppFrame, RunStore, hist_store>>

\* a retry that does not wait: continue without time.sleep(delay)
WakeNoSleep ==
    /\ pc = "waiting"
    /\ attempt' = attempt + 1
    /\ pc' = "attempting"
    /\ UNCHANGED <<history, last_request_time, clock, now, user_msg, temp_history,
                   delays, overloads, response, st_error, answer, prev_last,
                   prev_submit, last_accepted>>
    /\ UNCHANGED <<AppFrame, RunStore, Request, hist_store>>

\* lines 91-92, 59: time.sleep(delay) ends, continue, next iteration of the loop
\* (were the range exhausted, the function would fall off its end and return None)
Wake ==
    /\ pc = "waiting"
    /\ clock' = clock + delay
    /\ delays' = delays + 1
    /\ IF attempt + 1 <= max_retries
         THEN /\ attempt' = attempt + 1
              /\ pc' = "attempting"
              /\ answer' = answer
         ELSE /\ attempt' = attempt
              /\ pc' = "returned"
              /\ answer' = ""
    /\ UNCHANGED <<history, last_request_time, now, user_msg, temp_history,
                   overloads, response, st_error, prev_last, prev_submit,
                   last_accepted>>
    /\ UNCHANGED <<AppFrame, RunStore, Request, hist_store>>

\* lines 27-28: the positions of the listed stores whose display_name
\* attribute equals display_name
Matches(listing, display_name) ==
    {i \in 1..Len(listing) : listing[i].display_name = display_name}

\* the loop returns the last match instead of the first
FindStoreLast(listing, display_name) ==
    LET M == Matches(listing, display_name) IN
    listing[CHOOSE i \in M : \A j \in M : j <= i]

\* lines 27-29: the first listed store whose display name matches
FindStore(listing, display_name) ==
    LET M == Matches(listing, display_name) IN
    listing[CHOOSE i \in M : \A j \in M : i <= j]

\* what get_store's call leaves alone
GetStoreFrame ==
    <<history, last_request_time, clock, pc, now, RunLocals, prev_last,
      prev_submit, last_accepted, Request, hist_store, selected, model_name,
      cur, other>>

\* get_store without @st.cache_resource: a cached name is looked up again
GetStoreHitUncached ==
    /\ pc = "idle"
    /\ store = NoStore
    /\ store_cache[selected] # NoStore
    /\ Matches(stores, selected) # {}
    /\ store' = FindStore(stores, selected)
    /\ listed' = stores
    /\ created' = FALSE
    /\ ok_list_calls' = [ok_list_calls EXCEPT ![selected] = @ + 1]
    /\ uncaught' = "none"
    /\ UNCHANGED <<GetStoreFrame, stores, store_cache, ok_create_calls>>

\* lines 20, 135: get_store(store_display_name) answered by st.cache_resource
GetStoreHit ==
    /\ pc = "idle"
    /\ store = NoStore
    /\ store_cache[selected] # NoStore
    /\ store' = store_cache[selected]
    /\ uncaught' = "none"
    /\ UNCHANGED <<GetStoreFrame, listed, created, stores, store_cache,
                   ok_list_calls, ok_create_calls>>

\* lines 20-29, 135: not cached; the listing holds a store of that display name
GetStoreFound ==
    /\ pc = "idle"
    /\ store = NoStore
    /\ store_cache[selected] = NoStore
    /\ Matches(stores, selected) # {}
    /\ store' = FindStore(stores, selected)
    /\ listed' = stores
    /\ created' = FALSE
    /\ store_cache' = [store_cache EXCEPT ![selected] = FindStore(stores, selected)]
    /\ ok_list_calls' = [ok_list_calls EXCEPT ![selected] = @ + 1]
    /\ uncaught' = "none"
    /\ UNCHANGED <<GetStoreFrame, stores, ok_create_calls>>

\* lines 20-35, 135: not cached; no listed store matches, one is created
GetStoreCreated ==
    /\ pc = "idle"
    /\ store = NoStore
    /\ store_cache[selected] = NoStore
    /\ Matches(stores, selected) = {}
    /\ LET new == Store(Len(stores) + 1, selected) IN
         /\ stores' = Append(stores, new)
         /\ store' = new
         /\ store_cache' = [store_cache EXCEPT ![selected] = new]
    /\ listed' = stores
    /\ created' = TRUE
    /\ ok_list_calls' = [ok_list_calls EXCEPT ![selected] = @ + 1]
    /\ ok_create_calls' = [ok_create_calls EXCEPT ![selected] = @ + 1]
    /\ uncaught' = "none"
    /\ UNCHANGED GetStoreFrame

\* lines 27, 135: file_search_stores.list() raises; nothing catches it, the
\* run ends at line 135 and nothing is cached
GetStoreListFails ==
    /\ pc = "idle"
    /\ store = NoStore
    /\ store_cache[selected] = NoStore
    /\ uncaught' = "list"
    /\ UNCHANGED <<GetStoreFrame, RunStore, stores, store_cache, ok_list_calls,
                   ok_create_calls>>

\* lines 32-34, 135: file_search_stores.create() raises; nothing catches it
GetStoreCreateFails ==
    /\ pc = "idle"
    /\ store = NoStore
    /\ store_cache[selected] = NoStore
    /\ Matches(stores, selected) = {}
    /\ uncaught' = "create"
    /\ UNCHANGED <<GetStoreFrame, RunStore, stores, store_cache, ok_list_calls,
                   ok_create_calls>>

\* what a change in the sidebar leaves alone: everything but the widget
SidebarFrame ==
    <<history, last_request_time, clock, pc, now, RunLocals, prev_last,
      prev_submit, last_accepted, Request, hist_store, RunStore, uncaught,
      stores, store_cache, ok_list_calls, ok_create_calls, cur, other>>

\* the history is kept per store: picking another store starts an empty one
SelectStoreClears ==
    /\ pc = "idle"
    /\ store = NoStore
    /\ \E dn \in StoreOptions \ {selected} : selected' = dn
    /\ history' = <<>>
    /\ UNCHANGED <<last_request_time, clock, pc, now, RunLocals, prev_last,
                   prev_submit, last_accepted, Request, hist_store, RunStore,
                   uncaught, stores, store_cache, ok_list_calls, ok_create_calls,
                   cur, other, model_name>>

\* lines 128-134: the user picks another store; the script will run again
SelectStore ==
    /\ pc = "idle"
    /\ store = NoStore
    /\ \E dn \in StoreOptions \ {selected} : selected' = dn
    /\ UNCHANGED <<SidebarFrame, model_name>>

\* lines 138-146: the user picks another model; the script will run again
SelectModel ==
    /\ pc = "idle"
    /\ store = NoStore
    /\ \E m \in ModelOptions \ {model_name} : model_name' = m
    /\ UNCHANGED <<SidebarFrame, selected>>

\* lines 218, 282-284: a run without a new question renders the history and ends
RenderOnly ==
    /\ pc = "idle"
    /\ store # NoStore
    /\ store' = NoStore
    /\ listed' = NoListing
    /\ created' = FALSE
    /\ UNCHANGED <<history, last_request_time, clock, pc, now, RunLocals,
                   prev_last, prev_submit, last_accepted, Request, hist_store,
                   AppFrame>>

\* lines 108-113: what st.session_state and the script thread keep per session
SessionState ==
    [history |-> history, last_request_time |-> last_request_time, pc |-> pc,
     now |-> now, user_msg |-> user_msg, temp_history |-> temp_history,
     attempt |-> attempt, delays |-> delays, overloads |-> overloads,
     response |-> response, st_error |-> st_error, answer |-> answer,
     prev_last |-> prev_last, prev_submit |-> prev_submit,
     last_accepted |-> last_accepted, contents |-> contents,
     req_store |-> req_store, req_model |-> req_model, hist_store |-> hist_store,
     store |-> store, listed |-> listed, created |-> created,
     uncaught |-> uncaught, selected |-> selected, model_name |-> model_name]

\* last_request_time kept in a module-level variable of the process instead
\* of st.session_state: the sessions share it
ResumeSharedTime(s) ==
    /\ history' = s.history
    /\ last_request_time' = last_request_time
    /\ pc' = s.pc
    /\ now' = s.now
    /\ user_msg' = s.user_msg
    /\ temp_history' = s.temp_history
    /\ attempt' = s.attempt
    /\ delays' = s.delays
    /\ overloads' = s.overloads
    /\ response' = s.response
    /\ st_error' = s.st_error
    /\ answer' = s.answer
    /\ prev_last' = s.prev_last
    /\ prev_submit' = s.prev_submit
    /\ last_accepted' = s.last_accepted
    /\ contents' = s.contents
    /\ req_store' = s.req_store
    /\ req_model' = s.req_model
    /\ hist_store' = s.hist_store
    /\ store' = s.store
    /\ listed' = s.listed
    /\ created' = s.created
    /\ uncaught' = s.uncaught
    /\ selected' = s.selected
    /\ model_name' = s.model_name

\* the state a session finds when its thread runs again
Resume(s) ==
    /\ history' = s.history
    /\ last_request_time' = s.last_request_time
    /\ pc' = s.pc
    /\ now' = s.now
    /\ user_msg' = s.user_msg
    /\ temp_history' = s.temp_history
    /\ attempt' = s.attempt
    /\ delays' = s.delays
    /\ overloads' = s.overloads
    /\ response' = s.response
    /\ st_error' = s.st_error
    /\ answer' = s.answer
    /\ prev_last' = s.prev_last
    /\ prev_submit' = s.prev_submit
    /\ last_accepted' = s.last_accepted
    /\ contents' = s.contents
    /\ req_store' = s.req_store
    /\ req_model' = s.req_model
    /\ hist_store' = s.hist_store
    /\ store' = s.store
    /\ listed' = s.listed
    /\ created' = s.created
    /\ uncaught' = s.uncaught
    /\ selected' = s.selected
    /\ model_name' = s.model_name

\* the server runs the other session's script thread: each session has its
\* own st.session_state, widgets and locals; the clock, the remote service
\* and the cache of get_store are the process's
Switch ==
    /\ cur' = CHOOSE c \in Sessions : c # cur
    /\ other' = SessionState
    /\ Resume(other)
    /\ UNCHANGED <<clock, stores, store_cache, ok_list_calls, ok_create_calls>>

\* one generation attempt: the transport answers and ask_question handles it
Generate == GenSuccess \/ GenOverloadRetry \/ GenServerErrorFinal \/ GenAPIError

\* lines 265-281: answer substitution, history update, truncation
Finish ==
    /\ pc = "returned"
    /\ answer' = Displayed(answer)
    /\ history' = Updated(history, user_msg, Displayed(answer))
    /\ pc' = "done"
    /\ UNCHANGED <<last_request_time, clock, now, user_msg, temp_history,
                   attempt, delays, overloads, response, st_error, prev_last,
                   prev_submit, last_accepted>>
    /\ hist_store' = req_store
    /\ UNCHANGED <<AppFrame, RunStore, Request>>

\* the script run ends: its locals are gone, st.session_state stays
EndRun ==
    /\ pc \in {"done", "rejected"}
    /\ pc' = "idle"
    /\ prev_submit' = now
    /\ last_accepted' = IF pc = "done" THEN now ELSE last_accepted
    /\ now' = 0
    /\ prev_last' = 0
    /\ user_msg' = NoMsg
    /\ temp_history' = <<>>
    /\ attempt' = 0
    /\ delays' = 0
    /\ overloads' = 0
    /\ response' = NoResponse
    /\ st_error' = "none"
    /\ answer' = ""
    /\ UNCHANGED <<history, last_request_time, clock>>
    /\ contents' = <<>>
    /\ req_store' = 0
    /\ req_model' = "none"
    /\ store' = NoStore
    /\ listed' = NoListing
    /\ created' = FALSE
    /\ UNCHANGED <<AppFrame, hist_store>>

Next ==
    \/ GetStoreHit
    \/ GetStoreFound
    \/ GetStoreListFails
    \/ RenderOnly
    \/ SubmitRejected
    \/ SubmitAccepted
    \/ GenSuccess
    \/ GenOverloadRetry
    \/ GenServerErrorFinal
    \/ GenAPIError
    \/ Wake
    \/ Finish
    \/ EndRun

Spec == Init /\ [][Next]_vars

\* the same session with submission times drawn around the 1.5 s threshold
FineNext ==
    \/ GetStoreHit
    \/ GetStoreFound
    \/ GetStoreListFails
    \/ RenderOnly
    \/ FineSubmitRejected
    \/ FineSubmitAccepted
    \/ GenSuccess
    \/ GenOverloadRetry
    \/ GenServerErrorFinal
    \/ GenAPIError
    \/ Wake
    \/ Finish
    \/ EndRun

FineSpec == Init /\ [][FineNext]_vars

\* one session with the sidebar in use, on each of the remote services of
\* InitListings
StoreNext ==
    \/ GetStoreHit
    \/ GetStoreFound
    \/ GetStoreCreated
    \/ GetStoreListFails
    \/ GetStoreCreateFails
    \/ SelectStore
    \/ SelectModel
    \/ RenderOnly
    \/ StoreSubmitRejected
    \/ StoreSubmitAccepted
    \/ GenSuccess
    \/ GenOverloadRetry
    \/ GenServerErrorFinal
    \/ GenAPIError
    \/ Wake
    \/ Finish
    \/ EndRun

StoreSpec == AppInit /\ [][StoreNext]_vars

\* two sessions whose script threads interleave
MultiNext ==
    \/ GetStoreHit
    \/ GetStoreFound
    \/ GetStoreCreated
    \/ GetStoreListFails
    \/ GetStoreCreateFails
    \/ RenderOnly
    \/ MultiSubmitRejected
    \/ MultiSubmitAccepted
    \/ GenSuccess
    \/ GenOverloadRetry
    \/ GenServerErrorFinal
    \/ GenAPIError
    \/ Wake
    \/ Finish
    \/ EndRun
    \/ Switch

MultiSpec == AppInit /\ [][MultiNext]_vars

\* The transport answers every attempt (with a text or an error) and every
\* sleep ends: ask_question is synchronous, blocking code.
FairSpec == Spec /\ WF_vars(Generate) /\ WF_vars(Wake)

\* ------------------------------------------------------------------ claims

AtRest == pc \in {"idle", "done", "rejected"}

Min(a, b) == IF a < b THEN a ELSE b

IsSuccess(r) == r.kind = "ok"
IsEmptySuccess(r) == r.kind = "ok" /\ r.text \in {"", None}
IsOverloadError(r) == r.kind = "ServerError" /\ r.text = "overloaded"
IsOtherError(r) ==
    \/ r.kind = "APIError"
    \/ r.kind = "ServerError" /\ r.text # "overloaded"

\* C1: whenever the query flow has finished, the session history holds at
\* most 2 * MAX_TURNS = 12 turns.
Thm_C1 == AtRest => Len(history) <= 12

\* a completed submission on a history that was full: 14 turns were cut to 12
Wit_C1 == pc = "done" /\ Len(temp_history) = 13 /\ Len(history) = 12

\* C2: an accepted submission completed on a history of 6 pairs leaves
\* exactly the 5 most recent previous pairs, in their order, followed by the
\* new pair; the oldest pair is gone.
Thm_C2 ==
    (pc = "done" /\ Len(temp_history) = 13) =>
        /\ Len(history) = 12
        /\ \A i \in 1..10 : history[i] = temp_history[i + 2]
        /\ history[11] = user_msg
        /\ history[11] = temp_history[13]
        /\ history[12] = Content("model", answer)

\* the evicted pair differs from the pair that is now the oldest
Wit_C2 ==
    /\ pc = "done"
    /\ Len(temp_history) = 13
    /\ <<temp_history[1], temp_history[2]>> # <<history[1], history[2]>>
    /\ <<temp_history[3], temp_history[4]>> # <<temp_history[11], temp_history[12]>>

\* C3: at rest the history has even length, every odd position (1-based)
\* holds a user turn and the position after it a model turn.
Thm_C3 ==
    AtRest =>
        /\ Len(history) % 2 = 0
        /\ \A i \in 1..Len(history) :
             history[i].role = (IF i % 2 = 1 THEN "user" ELSE "model")

\* a submission that ended in an error outcome and triggered truncation
Wit_C3 ==
    /\ pc = "done"
    /\ st_error # "none"
    /\ Len(temp_history) = 13
    /\ history[12].text = FALLBACK

\* C4: a call of ask_question makes at most 5 attempts, and every call
\* returns, with a response (Done) or an error (Failed) as its last event.
Thm_C4 ==
    /\ [](attempt <= 5)
    /\ [](pc = "returned" =>
            attempt \in 1..5 /\ response.kind \in {"ok", "ServerError", "APIError"})
    /\ [](pc \in {"attempting", "waiting"} => <>(pc = "returned"))

\* four overloads, then another API error at the fifth attempt
Wit_C4 == pc = "returned" /\ attempt = 5 /\ response.kind = "APIError"

\* C5 as stated: with k consecutive overloads (then a success), the call is
\* retried exactly min(5, k) times and fails as overloaded when k >= 5.
Orig_C5 ==
    (pc = "returned" /\ (IsSuccess(response) \/ IsOverloadError(response))) =>
        /\ attempt - 1 = Min(5, overloads)
        /\ overloads >= 5 => (st_error = "overloaded" /\ answer = "")

\* C5 amended: the call is retried exactly min(4, k) times, that is, it makes
\* min(5, k + 1) attempts, and fails as overloaded when k >= 5.
Thm_C5 ==
    (pc = "returned" /\ (IsSuccess(response) \/ IsOverloadError(response))) =>
        /\ attempt - 1 = Min(4, overloads)
        /\ attempt = Min(5, overloads + 1)
        /\ overloads >= 5 => (st_error = "overloaded" /\ answer = "")
        /\ overloads < 5 => (IsSuccess(response) /\ st_error = "none")

\* five overloads in a row: the call has failed as overloaded
Wit_C5 == pc = "returned" /\ overloads = 5 /\ st_error = "overloaded"

\* C6 as stated: an error that is no overload signal ends the call at once,
\* with no delay after it, in the API-error outcome and not the overloaded one.
Orig_C6 ==
    (pc = "returned" /\ IsOtherError(response)) =>
        /\ delays = overloads
        /\ delays = attempt - 1
        /\ clock = now + 20 * delays
        /\ st_error = "api_error"

\* C7 as stated: a successful answer whose text is empty is never replaced by
\* the fallback message.
Orig_C7 ==
    (pc = "done" /\ response = Returned("")) =>
        /\ answer # FALLBACK
        /\ history[Len(history)].text # FALLBACK

\* C8: one 2-second delay after each overloaded attempt that is followed by
\* another attempt, none after the last attempt; a success returns its text.
Thm_C8 ==
    /\ pc = "attempting" =>
         /\ delays = attempt - 1
         /\ overloads = attempt - 1
         /\ clock = now + 20 * delays
    /\ pc = "waiting" =>
         /\ delays = attempt - 1
         /\ overloads = attempt
         /\ clock = now + 20 * delays
    /\ pc \in {"returned", "done"} =>
         /\ delays = attempt - 1
         /\ delays = overloads - (IF IsOverloadError(response) THEN 1 ELSE 0)
         /\ clock = now + 20 * delays
    /\ (pc = "returned" /\ IsSuccess(response) /\ ~IsEmptySuccess(response)) =>
         answer = response.text

\* empty history; overload, overload, success: 3 attempts, 2 delays, the text
Wit_C8 ==
    /\ pc = "returned"
    /\ Len(temp_history) = 1
    /\ attempt = 3
    /\ overloads = 2
    /\ delays = 2
    /\ clock = now + 40
    /\ response = Returned("a1")
    /\ answer = "a1"

\* C9: the check rejects exactly when now - lastRequestTime < 1.5 s, and
\* afterwards lastRequestTime = now, accepted or rejected.
Thm_C9 ==
    pc # "idle" =>
        /\ (pc = "rejected") <=> (now - prev_last < 15)
        /\ last_request_time = now

\* a submission 1.4 s after a rejected one: rejected, and recorded all the same
Wit_C9 ==
    /\ pc = "rejected"
    /\ prev_submit # last_accepted
    /\ now - prev_last = 14
    /\ last_request_time = now

\* C10: a submission is accepted iff at least 1.5 s passed since the
\* immediately preceding submission, accepted or rejected.
Thm_C10 ==
    pc # "idle" =>
        ((pc # "rejected") <=> (prev_submit = -1 \/ now - prev_submit >= 15))

\* rejected although 2.0 s passed since the last accepted submission
Wit_C10 ==
    /\ pc = "rejected"
    /\ last_accepted # -1
    /\ now - last_accepted >= 20
    /\ now - prev_submit = 10

InCall == pc \in {"attempting", "waiting", "returned"}
Sent == pc \in {"waiting", "returned"}

\* C11: a throttle-rejected submission makes no generation call and leaves
\* the session history unchanged; no user turn or assistant turn is added.
Thm_C11 ==
    [][pc' = "rejected" =>
          /\ history' = history
          /\ attempt' = 0
          /\ response' = NoResponse
          /\ contents' = <<>>
          /\ temp_history' = <<>>]_vars

\* a rejected submission in a session that has a history: only the time moved
Wit_C11 ==
    /\ pc = "rejected"
    /\ Len(history) >= 2
    /\ last_request_time = now
    /\ prev_last # now
    /\ attempt = 0

\* C12: every generation attempt carries the whole stored history, oldest
\* turn first, then the new user turn; a retry sends what the attempt before
\* it sent.
Thm_C12 ==
    [][(cur' = cur /\ pc = "attempting" /\ pc' # "attempting") =>
          /\ contents' = history \o <<user_msg>>
          /\ contents'[Len(contents')] = user_msg
          /\ user_msg.role = "user"
          /\ attempt > 1 => contents' = contents]_vars

\* a retried attempt of a submission made on a history of two pairs or more
Wit_C12 ==
    /\ pc = "returned"
    /\ attempt >= 2
    /\ Len(history) >= 4
    /\ contents = history \o <<user_msg>>

\* C13: over reruns and sessions, the get_store calls that return cause at
\* most one list() and one create() per display name, and return one handle.
Thm_C13 ==
    /\ [](\A dn \in StoreOptions :
            ok_list_calls[dn] <= 1 /\ ok_create_calls[dn] <= 1)
    /\ [](store # NoStore => store = store_cache[selected])
    /\ [](other.store # NoStore => other.store = store_cache[other.selected])
    /\ [][\A dn \in StoreOptions :
            store_cache[dn] # NoStore => store_cache'[dn] = store_cache[dn]]_vars

\* the second session is given, without a remote call, the store that the
\* first session's call created
Wit_C13 ==
    /\ cur = 2
    /\ store # NoStore
    /\ listed = NoListing
    /\ ok_create_calls[selected] = 1
    /\ other.store = store

\* C14: an uncached get_store returns the first listed store of that display
\* name and creates none; it creates one, and returns it, iff none matches.
Thm_C14 ==
    (store # NoStore /\ listed # NoListing) =>
        LET M == Matches(listed, selected) IN
        /\ created <=> M = {}
        /\ M # {} => \E i \in M : /\ store = listed[i]
                                  /\ \A j \in M : i <= j
        /\ M = {} => /\ store.display_name = selected
                     /\ \A i \in 1..Len(listed) : listed[i] # store
                     /\ \E k \in 1..Len(stores) : stores[k] = store

\* two listed stores have the display name: the first of them is returned
Wit_C14 ==
    /\ store # NoStore
    /\ listed # NoListing
    /\ Cardinality(Matches(listed, selected)) = 2
    /\ store = listed[2]
    /\ ~created

\* C15 as stated: no failure of the store listing or creation, no overload
\* exhaustion and no API error ends a script run by an uncaught exception.
Orig_C15 ==
    /\ uncaught = "none"
    /\ (pc = "returned" /\ response.kind # "ok") => answer = ""

\* C16: a step of one session leaves the other session's state as it is, a
\* session finds its history and last_request_time as it left them, and its
\* throttle decision and request contents follow from its own state.
Thm_C16 ==
    /\ [][cur' = cur => other' = other]_vars
    /\ [][cur' # cur =>
            /\ other'.history = history
            /\ other'.last_request_time = last_request_time
            /\ history' = other.history
            /\ last_request_time' = other.last_request_time]_vars
    /\ [](pc \notin {"idle"} =>
            ((pc = "rejected") <=> (prev_submit # -1 /\ now - prev_submit < 15)))
    /\ [](Sent => contents = history \o <<user_msg>>)

\* session 2 is accepted 0 s after a submission of session 1, whose call is
\* still in its retry loop
Wit_C16 ==
    /\ cur = 2
    /\ pc = "attempting"
    /\ other.pc = "waiting"
    /\ other.history # <<>>
    /\ now - other.last_request_time < 15
    /\ history = <<>>

\* C17: from the first attempt until ask_question returns, the request's
\* turns and the session history stay as they were at submission; the two
\* new turns are appended only after the call has returned.
Thm_C17 ==
    /\ [](InCall => temp_history = history \o <<user_msg>>)
    /\ [](Sent => contents = temp_history)
    /\ [][(cur' = cur /\ pc \in {"attempting", "waiting"}) =>
            /\ history' = history
            /\ temp_history' = temp_history]_vars
    /\ [][(cur' = cur /\ history' # history) =>
            pc = "returned" /\ pc' = "done"]_vars

\* a call that returned after two delays, on a session that has a history
Wit_C17 ==
    /\ pc = "returned"
    /\ delays >= 2
    /\ Len(history) >= 2
    /\ contents = temp_history
    /\ temp_history = history \o <<user_msg>>

NoAnswer(r) == r.kind # "ok" \/ r.text \in {"", None}

\* C18: an accepted submission adds one complete pair also when the query
\* fails or the text is empty, the model turn then holding the fallback text;
\* every stored turn, fallback turns too, is sent with each later request.
Thm_C18 ==
    /\ pc = "done" =>
         /\ Len(history) >= 2
         /\ history[Len(history) - 1] = user_msg
         /\ history[Len(history)] =
              Content("model", IF NoAnswer(response) THEN FALLBACK ELSE response.text)
         /\ Len(temp_history) <= 11 =>
              /\ Len(history) = Len(temp_history) + 1
              /\ SubSeq(history, 1, Len(temp_history)) = temp_history
    /\ Sent => /\ Len(contents) = Len(history) + 1
               /\ \A i \in 1..Len(history) : contents[i] = history[i]

\* a request on a full history that carries a fallback turn as a model turn
Wit_C18 ==
    /\ pc = "returned"
    /\ Len(contents) = 13
    /\ \E i \in 1..12 : contents[i] = Content("model", FALLBACK)

\* C19: picking another store or model leaves history and last_request_time
\* as they are; the next request carries the whole history and names the
\* store and the model now selected.
Thm_C19 ==
    /\ [][(cur' = cur /\ (selected' # selected \/ model_name' # model_name)) =>
            /\ history' = history
            /\ last_request_time' = last_request_time]_vars
    /\ [](Sent => /\ contents = history \o <<user_msg>>
                  /\ req_store = store.name
                  /\ store.display_name = selected
                  /\ req_model = model_name)

\* a request that names another store than the one the stored turns were
\* asked of, and another model than the default
Wit_C19 ==
    /\ pc = "returned"
    /\ Len(history) >= 2
    /\ hist_store # 0
    /\ hist_store # req_store
    /\ req_model # DefaultModel
    /\ Len(contents) = Len(history) + 1

====
